---- MODULE Spec2Model ----
(***************************************************************************)
(* The shader_printf sample: the ShaderPrintf render element (its          *)
(* lifecycle hooks onAttach / onResize / onUIRender / onRender / onDetach) *)
(* and the debug-message relay callback registered in main().              *)
(*                                                                         *)
(* The Vulkan device, the allocator, ImGui and the application host are    *)
(* external: the model keeps of them only what the element's code reads or *)
(* writes (handles, the release calls made on the device, the commands     *)
(* recorded in the command buffer, the ImGui values read by onUIRender).   *)
(***************************************************************************)
EXTENDS Integers, Sequences, FiniteSets, TLC

VARIABLES
    hostPhase,        \* where the host is in the element's lifecycle
    lastCall,         \* the hook the host called last, with its arguments
    m_app,            \* ShaderPrintf::m_app
    m_gBuffers,       \* ShaderPrintf::m_gBuffers (NULL or the target)
    m_viewSize,       \* ShaderPrintf::m_viewSize
    m_pushConstant,   \* ShaderPrintf::m_pushConstant
    m_pipelineLayout, \* ShaderPrintf::m_pipelineLayout
    m_graphicsPipeline, \* ShaderPrintf::m_graphicsPipeline
    m_vertices,       \* ShaderPrintf::m_vertices (its buffer handle)
    m_indices,        \* ShaderPrintf::m_indices (its buffer handle)
    nextHandle,       \* the device's next fresh object handle
    live,             \* handles of the objects created and not yet released
    deviceLog,        \* wait and release calls made on the device, in order
    workPending,      \* the device may still execute commands onRender recorded
    cmd,              \* the command buffer of the latest hook call: the host begins a
                      \* fresh one for every call, and only onRender records in it
    io,               \* the ImGui values the latest onUIRender read
    uiRendered,       \* onUIRender has run at least once
    pMessage,         \* callbackData->pMessage, the driver message delivered
    relayState,       \* position of dbg_messenger_callback
    g_logger          \* texts forwarded to the log sink

elemVars == <<hostPhase, lastCall, m_app, m_gBuffers, m_viewSize, m_pushConstant,
              m_pipelineLayout, m_graphicsPipeline, m_vertices, m_indices,
              nextHandle, live, deviceLog, workPending, cmd, io, uiRendered>>

relayVars == <<pMessage, relayState, g_logger>>

vars == <<elemVars, relayVars>>

-----------------------------------------------------------------------------
(* Bounds of the model *)

\* longest driver message
MaxLen == 4

\* pointer positions range over (0..MaxPos) x (0..MaxPos)
MaxPos == 1

\* viewport corners are <<c, c>> with c in 0..MaxCorner
MaxCorner == 1

\* viewport widths and heights range over 1..MaxExtent
MaxExtent == 2

\* onResize calls the host makes
MaxResizes == 2

-----------------------------------------------------------------------------
(* Values *)

NULL == [id |-> 0, size |-> <<0, 0>>]

VK_NULL_HANDLE == 0

\* the index count of the draw
IndexCount == 6

Alphabet == {"a", "b", "\n"}

Messages == UNION {[1..n -> Alphabet] : n \in 0..MaxLen}

Positions == {<<x, y>> : x \in 0..MaxPos, y \in 0..MaxPos}

Corners == {<<c, c>> : c \in 0..MaxCorner}

Buttons == [0..1 -> BOOLEAN]

-----------------------------------------------------------------------------
(* std::string on a 64-bit size_t, kept as four 16-bit limbs, low limb first *)

LimbBase == 65536

SizeLimbs == 4

SizeOf(n) == [i \in 1..SizeLimbs |-> IF i = 1 THEN n ELSE 0]

npos == [i \in 1..SizeLimbs |-> LimbBase - 1]

SizeInc_Saturating(x) ==
    IF x = npos THEN npos
    ELSE [i \in 1..SizeLimbs |->
            IF \A j \in 1..(i - 1) : x[j] = LimbBase - 1
            THEN (x[i] + 1) % LimbBase ELSE x[i]]

\* x + 1 in size_t: unsigned, wraps modulo 2^64
SizeInc(x) ==
    [i \in 1..SizeLimbs |->
        IF \A j \in 1..(i - 1) : x[j] = LimbBase - 1
        THEN (x[i] + 1) % LimbBase ELSE x[i]]

\* x > n, for a length n < LimbBase
SizeGt(x, n) == (\E i \in 2..SizeLimbs : x[i] # 0) \/ x[1] > n

StrFind_Last(s, c) ==
    IF \E i \in 1..Len(s) : s[i] = c
    THEN SizeOf((CHOOSE i \in 1..Len(s) :
                    s[i] = c /\ \A j \in (i + 1)..Len(s) : s[j] # c) - 1)
    ELSE npos

\* std::string::find(char): the 0-based index of the first occurrence, or npos
StrFind(s, c) ==
    IF \E i \in 1..Len(s) : s[i] = c
    THEN SizeOf((CHOOSE i \in 1..Len(s) :
                    s[i] = c /\ \A j \in 1..(i - 1) : s[j] # c) - 1)
    ELSE npos

\* std::string::substr(pos): throws std::out_of_range when pos > size()
StrSubstr(s, pos) ==
    IF SizeGt(pos, Len(s))
    THEN [threw |-> TRUE, str |-> <<>>]
    ELSE [threw |-> FALSE, str |-> SubSeq(s, pos[1] + 1, Len(s))]

\* clean_msg.substr(clean_msg.find('\n') + 1)
CleanMsg(msg) == StrSubstr(msg, SizeInc(StrFind(msg, "\n")))

-----------------------------------------------------------------------------
(* The debug-message relay *)

dbg_messenger_callback ==
    /\ relayState = "delivered"
    /\ LET clean_msg == CleanMsg(pMessage)
       IN IF clean_msg.threw
          THEN /\ relayState' = "terminated"
               /\ g_logger' = g_logger
          ELSE /\ relayState' = "returned"
               /\ g_logger' = Append(g_logger, clean_msg.str)
    /\ UNCHANGED <<pMessage, elemVars>>

-----------------------------------------------------------------------------
(* The render element *)

InitElement ==
    /\ hostPhase = "Constructed"
    /\ lastCall = [op |-> "constructor", args |-> <<>>]
    /\ m_app = "nullptr"
    /\ m_gBuffers = NULL
    /\ m_viewSize = <<0, 0>>
    /\ m_pushConstant = [mouseCoord |-> <<0, 0>>]
    /\ m_pipelineLayout = VK_NULL_HANDLE
    /\ m_graphicsPipeline = VK_NULL_HANDLE
    /\ m_vertices = VK_NULL_HANDLE
    /\ m_indices = VK_NULL_HANDLE
    /\ nextHandle = 1
    /\ live = {}
    /\ deviceLog = <<>>
    /\ workPending = FALSE
    /\ cmd = <<>>
    /\ io = [MouseDown |-> [b \in 0..1 |-> FALSE],
             MousePos |-> <<0, 0>>, CursorScreenPos |-> <<0, 0>>]
    /\ uiRendered = FALSE

InitRelayIdle ==
    /\ pMessage = <<>>
    /\ relayState = "idle"
    /\ g_logger = <<>>

InitRelay ==
    /\ pMessage \in Messages
    /\ relayState = "delivered"
    /\ g_logger = <<>>

onAttach ==
    /\ hostPhase = "Constructed"
    /\ hostPhase' = "Attached"
    /\ lastCall' = [op |-> "onAttach", args |-> <<>>]
    /\ m_app' = "app"
    /\ m_pipelineLayout' = nextHandle
    /\ m_graphicsPipeline' = nextHandle + 1
    /\ m_vertices' = nextHandle + 2
    /\ m_indices' = nextHandle + 3
    /\ nextHandle' = nextHandle + 4
    /\ live' = live \cup {nextHandle, nextHandle + 1, nextHandle + 2, nextHandle + 3}
    /\ cmd' = <<>>
    /\ UNCHANGED <<m_gBuffers, m_viewSize, m_pushConstant, deviceLog, workPending,
                   io, uiRendered, relayVars>>

\* an entry of deviceLog: a call on the device or the allocator
DeviceCall(call, obj, handle, pending) ==
    [call |-> call, obj |-> obj, handle |-> handle, pending |-> pending]

\* onResize calls made since onAttach (the targets take the handles after m_indices)
ResizesDone == nextHandle - 1 - m_indices

createGbuffers_StaleViewSize(size) ==
    /\ m_gBuffers' = [id |-> nextHandle, size |-> m_viewSize]
    /\ m_viewSize' = size
    /\ nextHandle' = nextHandle + 1
    /\ live' = (live \ {m_gBuffers.id}) \cup {nextHandle}

\* m_viewSize = size; m_gBuffers = make_unique<GBuffer>(..., m_viewSize, ...):
\* the new target is built first, then the unique_ptr assignment deletes the old one
createGbuffers(size) ==
    /\ m_viewSize' = size
    /\ m_gBuffers' = [id |-> nextHandle, size |-> m_viewSize']
    /\ nextHandle' = nextHandle + 1
    /\ live' = (live \ {m_gBuffers.id}) \cup {nextHandle}

onResize(width, height) ==
    /\ hostPhase = "Attached"
    /\ ResizesDone < MaxResizes
    /\ lastCall' = [op |-> "onResize", args |-> <<width, height>>]
    /\ createGbuffers(<<width, height>>)
    /\ cmd' = <<>>
    /\ UNCHANGED <<hostPhase, m_app, m_pushConstant, m_pipelineLayout,
                   m_graphicsPipeline, m_vertices, m_indices, deviceLog, workPending,
                   io, uiRendered, relayVars>>

\* glm::vec2 operator-
Vec2Sub(a, b) == <<a[1] - b[1], a[2] - b[2]>>

PickMouseCoord_IgnoreButton(MouseDown, mouse_pos, corner) ==
    Vec2Sub(mouse_pos, corner)

PickMouseCoord_CornerMinusPos(MouseDown, mouse_pos, corner) ==
    IF MouseDown[0] THEN Vec2Sub(corner, mouse_pos) ELSE <<-1, -1>>

\* "Pick the mouse coordinate if the mouse is down"
PickMouseCoord(MouseDown, mouse_pos, corner) ==
    IF MouseDown[0] THEN Vec2Sub(mouse_pos, corner) ELSE <<-1, -1>>

onUIRender(MouseDown, mouse_pos, corner) ==
    /\ hostPhase \in {"Attached", "Detached"}
    /\ lastCall' = [op |-> "onUIRender", args |-> <<>>]
    /\ io' = [MouseDown |-> MouseDown, MousePos |-> mouse_pos,
              CursorScreenPos |-> corner]
    /\ m_pushConstant' = [m_pushConstant EXCEPT
                            !.mouseCoord = PickMouseCoord(MouseDown, mouse_pos, corner)]
    /\ uiRendered' = TRUE
    /\ cmd' = <<>>
    /\ UNCHANGED <<hostPhase, m_app, m_gBuffers, m_viewSize, m_pipelineLayout,
                   m_graphicsPipeline, m_vertices, m_indices, nextHandle, live,
                   deviceLog, workPending, relayVars>>

\* an entry of cmd: a command recorded in the command buffer
Command(op, handle, stages, arg) ==
    [op |-> op, handle |-> handle, stages |-> stages, arg |-> arg]

RenderCommands_BindBeforePush ==
    << Command("vkCmdBeginDebugUtilsLabelEXT", 0, "", <<>>),
       Command("vkCmdBeginRendering", m_gBuffers.id, "", m_viewSize),
       Command("setViewport", 0, "", <<>>),
       Command("vkCmdBindPipeline", m_graphicsPipeline, "", <<>>),
       Command("vkCmdPushConstants", m_pipelineLayout, "VERTEX|FRAGMENT",
               <<0>> \o m_pushConstant.mouseCoord),
       Command("vkCmdBindVertexBuffers", m_vertices, "", <<0>>),
       Command("vkCmdBindIndexBuffer", m_indices, "", <<0>>),
       Command("vkCmdDrawIndexed", 0, "", <<IndexCount, 1, 0, 0, 0>>),
       Command("vkCmdEndRendering", 0, "", <<>>),
       Command("vkCmdEndDebugUtilsLabelEXT", 0, "", <<>>) >>

\* what onRender records once past the early return; the push carries
\* <<offset>> \o the struct, the draw <<indexCount, instanceCount, 0, 0, 0>>
RenderCommands ==
    << Command("vkCmdBeginDebugUtilsLabelEXT", 0, "", <<>>),
       Command("vkCmdBeginRendering", m_gBuffers.id, "", m_viewSize),
       Command("setViewport", 0, "", <<>>),
       Command("vkCmdPushConstants", m_pipelineLayout, "VERTEX|FRAGMENT",
               <<0>> \o m_pushConstant.mouseCoord),
       Command("vkCmdBindPipeline", m_graphicsPipeline, "", <<>>),
       Command("vkCmdBindVertexBuffers", m_vertices, "", <<0>>),
       Command("vkCmdBindIndexBuffer", m_indices, "", <<0>>),
       Command("vkCmdDrawIndexed", 0, "", <<IndexCount, 1, 0, 0, 0>>),
       Command("vkCmdEndRendering", 0, "", <<>>),
       Command("vkCmdEndDebugUtilsLabelEXT", 0, "", <<>>) >>

RenderSkips_Never == FALSE

\* if(!m_gBuffers) return;
RenderSkips == m_gBuffers = NULL

onRender ==
    /\ hostPhase \in {"Attached", "Detached"}
    /\ lastCall' = [op |-> "onRender", args |-> <<>>]
    /\ IF RenderSkips
       THEN /\ cmd' = <<>>
            /\ workPending' = workPending
       ELSE /\ cmd' = RenderCommands
            /\ workPending' = TRUE
    /\ UNCHANGED <<hostPhase, m_app, m_gBuffers, m_viewSize, m_pushConstant,
                   m_pipelineLayout, m_graphicsPipeline, m_vertices, m_indices,
                   nextHandle, live, deviceLog, io, uiRendered, relayVars>>

\* vkDeviceWaitIdle(m_device): returns once no submitted work is pending
vkDeviceWaitIdle(log, pending) ==
    [log |-> Append(log, DeviceCall("vkDeviceWaitIdle", "m_device", 0, pending)),
     pending |-> FALSE]

DestroyCalls_PipelineFirst(pending) ==
    << DeviceCall("vkDestroyPipeline", "m_graphicsPipeline", m_graphicsPipeline, pending),
       DeviceCall("vkDestroyPipelineLayout", "m_pipelineLayout", m_pipelineLayout, pending),
       DeviceCall("AllocVma::destroy", "m_vertices", m_vertices, pending),
       DeviceCall("AllocVma::destroy", "m_indices", m_indices, pending) >>

\* the four release calls of destroyResources, in the order it makes them
DestroyCalls(pending) ==
    << DeviceCall("vkDestroyPipelineLayout", "m_pipelineLayout", m_pipelineLayout, pending),
       DeviceCall("vkDestroyPipeline", "m_graphicsPipeline", m_graphicsPipeline, pending),
       DeviceCall("AllocVma::destroy", "m_vertices", m_vertices, pending),
       DeviceCall("AllocVma::destroy", "m_indices", m_indices, pending) >>

destroyResources_KeepTarget(log, pending) ==
    /\ deviceLog' = log \o DestroyCalls(pending)
    /\ live' = live \ {m_pipelineLayout, m_graphicsPipeline, m_vertices, m_indices}
    /\ m_vertices' = VK_NULL_HANDLE
    /\ m_indices' = VK_NULL_HANDLE
    /\ m_gBuffers' = m_gBuffers
    /\ UNCHANGED <<m_pipelineLayout, m_graphicsPipeline>>

\* the handle fields of the pipeline and its layout keep their (released) values
destroyResources(log, pending) ==
    /\ deviceLog' = log \o DestroyCalls(pending)
                        \o (IF m_gBuffers = NULL THEN <<>>
                            ELSE <<DeviceCall("~GBuffer", "m_gBuffers",
                                              m_gBuffers.id, pending)>>)
    /\ live' = live \ {m_pipelineLayout, m_graphicsPipeline, m_vertices, m_indices,
                       m_gBuffers.id}
    /\ m_vertices' = VK_NULL_HANDLE
    /\ m_indices' = VK_NULL_HANDLE
    /\ m_gBuffers' = NULL
    /\ UNCHANGED <<m_pipelineLayout, m_graphicsPipeline>>

onDetach_NoWait ==
    /\ hostPhase = "Attached"
    /\ hostPhase' = "Detached"
    /\ lastCall' = [op |-> "onDetach", args |-> <<>>]
    /\ destroyResources(deviceLog, workPending)
    /\ cmd' = <<>>
    /\ UNCHANGED <<workPending, m_app, m_viewSize, m_pushConstant, nextHandle, io,
                   uiRendered, relayVars>>

onDetach ==
    /\ hostPhase = "Attached"
    /\ hostPhase' = "Detached"
    /\ lastCall' = [op |-> "onDetach", args |-> <<>>]
    /\ LET idle == vkDeviceWaitIdle(deviceLog, workPending)
       IN /\ workPending' = idle.pending
          /\ destroyResources(idle.log, idle.pending)
    /\ cmd' = <<>>
    /\ UNCHANGED <<m_app, m_viewSize, m_pushConstant, nextHandle, io,
                   uiRendered, relayVars>>

-----------------------------------------------------------------------------
(* Specifications *)

Init == InitElement /\ InitRelayIdle

Next ==
    \/ onAttach
    \/ \E width \in 1..MaxExtent, height \in 1..MaxExtent : onResize(width, height)
    \/ \E MouseDown \in Buttons, mouse_pos \in Positions, corner \in Corners :
          onUIRender(MouseDown, mouse_pos, corner)
    \/ onRender
    \/ onDetach

Spec == Init /\ [][Next]_vars

RelayInit == InitElement /\ InitRelay

RelayNext == dbg_messenger_callback

RelaySpec == RelayInit /\ [][RelayNext]_vars

-----------------------------------------------------------------------------
(* Properties of the debug-message relay, under RelaySpec *)

HasNewline(s) == \E i \in 1..Len(s) : s[i] = "\n"

\* t is s with everything up to and including its first newline removed
IsAfterFirstNewline(s, t) ==
    \E p \in 1..Len(s) :
        /\ s[p] = "\n"
        /\ \A j \in 1..(p - 1) : s[j] # "\n"
        /\ Len(t) = Len(s) - p
        /\ \A k \in 1..Len(t) : t[k] = s[p + k]

\* C1: a message with at least one newline is forwarded as the text strictly
\* after its first newline, later newlines kept, and the relay does not fail.
C1_StripsThroughFirstNewline ==
    (relayState # "delivered" /\ HasNewline(pMessage)) =>
        /\ relayState = "returned"
        /\ Len(g_logger) = 1
        /\ IsAfterFirstNewline(pMessage, g_logger[1])

C1_Witness ==
    /\ relayState = "returned"
    /\ Cardinality({i \in 1..Len(pMessage) : pMessage[i] = "\n"}) >= 2
    /\ Len(g_logger) = 1
    /\ HasNewline(g_logger[1])
    /\ Len(g_logger[1]) < Len(pMessage)

\* C2: a message without a newline (the empty one included) is forwarded
\* unchanged and the relay does not fail, although find returned npos.
C2_NoNewlinePassesThrough ==
    (relayState # "delivered" /\ ~HasNewline(pMessage)) =>
        /\ relayState = "returned"
        /\ g_logger = <<pMessage>>

C2_Witness ==
    /\ relayState = "returned"
    /\ ~HasNewline(pMessage)
    /\ StrFind(pMessage, "\n") = npos
    /\ Len(pMessage) > 0
    /\ g_logger = <<pMessage>>

-----------------------------------------------------------------------------
(* Properties of the render element, under Spec *)

NoButtonDown == \A b \in 0..1 : ~io.MouseDown[b]

\* onRender has just recorded a frame
Rendered == lastCall.op = "onRender" /\ cmd # <<>>

\* the mouseCoord carried by the push-constant command of cmd
PushedCoord ==
    LET i == CHOOSE k \in 1..Len(cmd) : cmd[k].op = "vkCmdPushConstants"
    IN  Tail(cmd[i].arg)

\* C3 as stated: in every reachable state, also before the first onUIRender,
\* mouseCoord held and pushed is (-1, -1) when no pointer button is down.
C3_Original ==
    NoButtonDown =>
        /\ m_pushConstant.mouseCoord = <<-1, -1>>
        /\ Rendered => PushedCoord = <<-1, -1>>

\* C3 amended: once onUIRender has run, the mouseCoord held and pushed by
\* onRender is (-1, -1) when no pointer button was down at the latest
\* onUIRender; before the first onUIRender it is the value-initialised (0, 0).
C3_SentinelAfterUIRender ==
    /\ (uiRendered /\ NoButtonDown) =>
          /\ m_pushConstant.mouseCoord = <<-1, -1>>
          /\ Rendered => PushedCoord = <<-1, -1>>
    /\ ~uiRendered =>
          /\ m_pushConstant.mouseCoord = <<0, 0>>
          /\ Rendered => PushedCoord = <<0, 0>>

C3_Witness ==
    /\ uiRendered
    /\ NoButtonDown
    /\ io.MousePos # io.CursorScreenPos
    /\ Rendered
    /\ PushedCoord = <<-1, -1>>

\* C4: with button 0 held at onUIRender, mouseCoord is the pointer position
\* minus the viewport corner, component-wise, also outside the viewport, and
\* the next onRender pushes that value.
C4_CoordIsPointerMinusCorner ==
    (uiRendered /\ io.MouseDown[0]) =>
        LET expected == <<io.MousePos[1] - io.CursorScreenPos[1],
                          io.MousePos[2] - io.CursorScreenPos[2]>>
        IN  /\ m_pushConstant.mouseCoord = expected
            /\ Rendered => PushedCoord = expected

C4_Witness ==
    /\ uiRendered
    /\ io.MouseDown[0]
    /\ io.MousePos[1] < io.CursorScreenPos[1]
    /\ io.MousePos[2] = io.CursorScreenPos[2]
    /\ Rendered
    /\ PushedCoord = <<-1, 0>>

\* C5: onResize(W, H) leaves a newly created target of size (W, H) and
\* m_viewSize = (W, H), and keeps the pipeline, its layout, both geometry
\* buffers and the push-constant struct as they were.
C5_ResizeReplacesTarget ==
    [][lastCall'.op = "onResize" =>
          /\ m_gBuffers' # NULL
          /\ m_gBuffers'.size = lastCall'.args
          /\ m_viewSize' = lastCall'.args
          /\ m_gBuffers'.id >= nextHandle
          /\ m_gBuffers'.id # m_gBuffers.id
          /\ m_gBuffers'.id \in live'
          /\ m_gBuffers # NULL => m_gBuffers.id \notin live'
          /\ UNCHANGED <<m_graphicsPipeline, m_pipelineLayout, m_vertices,
                         m_indices, m_pushConstant>>]_vars

C5_Witness ==
    /\ lastCall.op = "onResize"
    /\ ResizesDone >= 2
    /\ m_gBuffers.size = lastCall.args
    /\ lastCall.args[1] # lastCall.args[2]

ReleasedObjects == {"m_graphicsPipeline", "m_pipelineLayout", "m_vertices", "m_indices"}

\* positions in deviceLog of the release calls made on obj
ReleasesOf(obj) ==
    {i \in 1..Len(deviceLog) :
        deviceLog[i].obj = obj /\ deviceLog[i].call # "vkDeviceWaitIdle"}

\* C6: after onDetach each of the pipeline, the pipeline layout, the vertex
\* buffer and the index buffer has been released exactly once, every release
\* following the wait for the device and finding no work pending; while the
\* element is attached none of them is released.
C6_ReleasedOnceAfterWait ==
    /\ hostPhase = "Attached" =>
          /\ \A obj \in ReleasedObjects : ReleasesOf(obj) = {}
          /\ {m_graphicsPipeline, m_pipelineLayout, m_vertices, m_indices} \subseteq live
    /\ hostPhase = "Detached" =>
          /\ \A obj \in ReleasedObjects :
                /\ Cardinality(ReleasesOf(obj)) = 1
                /\ \A i \in ReleasesOf(obj) :
                      /\ deviceLog[i].handle # VK_NULL_HANDLE
                      /\ deviceLog[i].handle \notin live
                      /\ ~deviceLog[i].pending
                      /\ \E w \in 1..(i - 1) : deviceLog[w].call = "vkDeviceWaitIdle"
          /\ \A i, j \in 1..Len(deviceLog) :
                (i # j /\ deviceLog[i].call # "vkDeviceWaitIdle"
                       /\ deviceLog[j].call # "vkDeviceWaitIdle")
                    => deviceLog[i].handle # deviceLog[j].handle

C6_Witness ==
    /\ hostPhase = "Detached"
    /\ deviceLog[1].call = "vkDeviceWaitIdle"
    /\ deviceLog[1].pending
    /\ \A obj \in ReleasedObjects : Cardinality(ReleasesOf(obj)) = 1
    /\ nextHandle > m_graphicsPipeline + 4

\* C7: with no render target (m_gBuffers null) onRender records nothing in
\* the command buffer and changes no state of the element or the device.
C7_RenderSkipsWithoutTarget ==
    [][(lastCall'.op = "onRender" /\ m_gBuffers = NULL) =>
          /\ cmd' = <<>>
          /\ UNCHANGED <<hostPhase, m_app, m_gBuffers, m_viewSize, m_pushConstant,
                         m_pipelineLayout, m_graphicsPipeline, m_vertices,
                         m_indices, nextHandle, live, deviceLog, workPending>>]_vars

C7_Witness ==
    /\ hostPhase = "Attached"
    /\ lastCall.op = "onRender"
    /\ m_gBuffers = NULL
    /\ uiRendered
    /\ cmd = <<>>

\* the objects onDetach acted on, in order, the render target left out
DetachOrder ==
    LET calls == SelectSeq(deviceLog, LAMBDA e : e.obj # "m_gBuffers")
    IN  [i \in 1..Len(calls) |-> calls[i].obj]

\* C8 as stated: wait, then pipeline, then pipeline layout, then vertex and
\* index buffer.
C8_Original ==
    hostPhase = "Detached" =>
        DetachOrder = <<"m_device", "m_graphicsPipeline", "m_pipelineLayout",
                        "m_vertices", "m_indices">>

\* C8 amended: wait, then pipeline layout, then pipeline, then vertex buffer,
\* then index buffer, then the render target if there is one; the pipeline
\* layout is released before the pipeline.
C8_LayoutThenPipeline ==
    hostPhase = "Detached" =>
        /\ DetachOrder = <<"m_device", "m_pipelineLayout", "m_graphicsPipeline",
                           "m_vertices", "m_indices">>
        /\ \A i \in 1..Len(deviceLog) :
              deviceLog[i].obj = "m_gBuffers" => i = Len(deviceLog)

C8_Witness ==
    /\ hostPhase = "Detached"
    /\ lastCall.op = "onDetach"
    /\ Len(deviceLog) = 6
    /\ deviceLog[6].obj = "m_gBuffers"

OpsOf(commands) == [i \in 1..Len(commands) |-> commands[i].op]

\* C9 as stated, read leniently: among the commands the claim names, the order
\* is begin, bind pipeline, push constants, draw, end.
C9_Original ==
    Rendered =>
        OpsOf(SelectSeq(cmd, LAMBDA c : c.op \in
                  {"vkCmdBeginRendering", "vkCmdBindPipeline", "vkCmdPushConstants",
                   "vkCmdDrawIndexed", "vkCmdEndRendering"}))
          = <<"vkCmdBeginRendering", "vkCmdBindPipeline", "vkCmdPushConstants",
              "vkCmdDrawIndexed", "vkCmdEndRendering">>

\* C9 amended: with a target, onRender records, inside its debug label: begin
\* rendering on the target, set viewport, push the whole struct (offset 0,
\* vertex and fragment stages), bind the pipeline, bind the vertex buffer, bind
\* the index buffer, one indexed draw of 6 indices, end rendering; the push of
\* the constants precedes the pipeline bind.
C9_PushThenBind ==
    (lastCall.op = "onRender" /\ m_gBuffers # NULL) =>
        /\ OpsOf(cmd) = <<"vkCmdBeginDebugUtilsLabelEXT", "vkCmdBeginRendering",
                          "setViewport", "vkCmdPushConstants", "vkCmdBindPipeline",
                          "vkCmdBindVertexBuffers", "vkCmdBindIndexBuffer",
                          "vkCmdDrawIndexed", "vkCmdEndRendering",
                          "vkCmdEndDebugUtilsLabelEXT">>
        /\ cmd[2].handle = m_gBuffers.id /\ cmd[2].arg = m_gBuffers.size
        /\ cmd[4].handle = m_pipelineLayout
        /\ cmd[4].stages = "VERTEX|FRAGMENT"
        /\ cmd[4].arg = <<0, m_pushConstant.mouseCoord[1], m_pushConstant.mouseCoord[2]>>
        /\ cmd[5].handle = m_graphicsPipeline
        /\ cmd[6].handle = m_vertices
        /\ cmd[7].handle = m_indices
        /\ cmd[8].arg[1] = 6 /\ cmd[8].arg[2] = 1

C9_Witness ==
    /\ hostPhase = "Attached"
    /\ Rendered
    /\ Len(cmd) = 10
    /\ cmd[4].op = "vkCmdPushConstants"
    /\ cmd[5].op = "vkCmdBindPipeline"

\* C10: whatever onRender records references only live objects; onDetach
\* leaves no render target, so an onRender after it records nothing.
C10_NoReleasedHandleUsed ==
    /\ lastCall.op = "onRender" =>
          \A i \in 1..Len(cmd) :
              cmd[i].handle # VK_NULL_HANDLE => cmd[i].handle \in live
    /\ hostPhase = "Detached" =>
          /\ m_gBuffers = NULL
          /\ lastCall.op = "onRender" => cmd = <<>>

C10_Witness ==
    /\ hostPhase = "Detached"
    /\ lastCall.op = "onRender"
    /\ uiRendered
    /\ m_graphicsPipeline \notin live
    /\ \E i \in 1..Len(deviceLog) : deviceLog[i].obj = "m_gBuffers"

====
